---- MODULE Spec2Model ----
(***************************************************************************)
(* MathCraft "Twisted Curves" (src/app.py): the polynomial display         *)
(* formatters, the root expansion and the sampling of the Streamlit script. *)
(*                                                                         *)
(* Numbers.  Every slider of the script moves in steps of 0.1, and the     *)
(* expanded coefficients are sums and products of at most three slider     *)
(* values, so every number the formatters see has at most three decimal    *)
(* digits.  A number v is held as the integer 1000 * v (Scale).  Binary    *)
(* floating-point rounding of the Python floats is not modelled.           *)
(*                                                                         *)
(* Strings.  A Python str is held as the sequence of its characters, each  *)
(* a one-character string, so that concatenation is \o and the characters  *)
(* of a result can be inspected.                                           *)
(***************************************************************************)
EXTENDS Integers, Sequences, FiniteSets

VARIABLES
    pc,           \* "call" / "returned" / "raised" for a direct call of a formatter; "run" after a script run
    mode,         \* the radio's value: "zeros" or "coefficients" (for a direct call: which formatter)
    zeros,        \* the list `zeros` (thousandths)
    abcd,         \* <<a, b, c, d>> of coefficient mode (thousandths)
    poly_string,  \* the display string: poly_string / polynomial_display
    coefs,        \* the locals coef_x3.. coef_x0 of the last expansion, highest power first
    x_values,     \* st.session_state.x_values; <<>> while the key is absent
    t,            \* the x-array handed to the chart
    f_t,          \* the y-array handed to the chart
    marker_text   \* text= of the 'Zeros' marker trace

vars == <<pc, mode, zeros, abcd, poly_string, coefs, x_values, t, f_t, marker_text>>

----------------------------------------------------------------------------
(* Bounds of the model. *)

\* Roots and coefficients of a direct call range over -MaxHalf/2 .. MaxHalf/2 in steps of 0.5.
MaxHalf == 5

\* In a session each slider is moved among its default and the first MaxMove of MovePositions.
MaxMove == 2

----------------------------------------------------------------------------
(* Numbers *)

\* Three decimal digits: a product of three values that each have one (slider step 0.1).
Scale == 10 * 10 * 10
One == Scale

Abs(v) == IF v < 0 THEN -v ELSE v

\* Product of two fixed-point numbers; exact for the values that occur.
Mul(u, v) == (u * v) \div Scale

----------------------------------------------------------------------------
(* Rendering of numbers: Python's format(v, "g") *)

DigitChars == <<"0", "1", "2", "3", "4", "5", "6", "7", "8", "9">>

RECURSIVE IntStr(_)
IntStr(n) ==
    IF n < 10 THEN <<DigitChars[n + 1]>>
    ELSE IntStr(n \div 10) \o <<DigitChars[(n % 10) + 1]>>

\* The digits after the point of m / 1000, 0 < m < 1000, trailing zeros removed.
FracStr(m) ==
    LET d1 == m \div 100
        d2 == (m \div 10) % 10
        d3 == m % 10
    IN  IF d3 # 0 THEN <<DigitChars[d1 + 1], DigitChars[d2 + 1], DigitChars[d3 + 1]>>
        ELSE IF d2 # 0 THEN <<DigitChars[d1 + 1], DigitChars[d2 + 1]>>
        ELSE <<DigitChars[d1 + 1]>>

\* f"{v:g}": sign, integer part, and the fraction only when there is one
\* (1.0 -> "1", -0.5 -> "-0.5", 3.375 -> "3.375").
FmtG(v) ==
    LET m == Abs(v)
    IN  (IF v < 0 THEN <<"-">> ELSE <<>>)
        \o IntStr(m \div Scale)
        \o (IF m % Scale = 0 THEN <<>> ELSE <<".">> \o FracStr(m % Scale))

\* "".join(terms)
RECURSIVE Join(_)
Join(terms) == IF terms = <<>> THEN <<>> ELSE Head(terms) \o Join(Tail(terms))

\* any(terms): some term is a non-empty string
AnyTerm(terms) == \E i \in 1..Len(terms) : terms[i] # <<>>

----------------------------------------------------------------------------
(* zeros_to_polynomial_string *)

format_coefficient(coef, power, is_first) ==
    IF coef = 0 THEN <<>>
    ELSE IF power = 0 THEN
        IF coef > 0 /\ ~is_first THEN <<" ", "+", " ">> \o FmtG(coef)
        ELSE FmtG(coef)
    ELSE IF power = 1 THEN
        LET coef_str ==
                IF coef = One THEN (IF is_first THEN <<>> ELSE <<" ", "+", " ">>)
                ELSE IF coef = -One THEN (IF is_first THEN <<"-">> ELSE <<" ", "-", " ">>)
                ELSE IF coef > 0 THEN
                    (IF is_first THEN FmtG(coef) ELSE <<" ", "+", " ">> \o FmtG(coef))
                ELSE (IF is_first THEN FmtG(coef) ELSE <<" ", "-", " ">> \o FmtG(Abs(coef)))
        IN  coef_str \o <<"x">>
    ELSE
        LET coef_str ==
                IF coef = One THEN (IF is_first THEN <<>> ELSE <<" ", "+", " ">>)
                ELSE IF coef = -One THEN (IF is_first THEN <<"-">> ELSE <<" ", "-", " ">>)
                ELSE IF coef > 0 THEN
                    (IF is_first THEN FmtG(coef) ELSE <<" ", "+", " ">> \o FmtG(coef))
                ELSE (IF is_first THEN FmtG(coef) ELSE <<" ", "-", " ">> \o FmtG(Abs(coef)))
        IN  coef_str \o <<"x", "^">> \o IntStr(power)

\* The 2-root branch's coefficients, powers 2, 1, 0.
expand2(zs) ==
    LET a == zs[1]
        b == zs[2]
    IN  <<One, -(a + b), Mul(a, b)>>

\* A sign slip on the pairwise-product coefficient of the 3-root branch.
expand3_slip(zs) ==
    LET a == zs[1]
        b == zs[2]
        c == zs[3]
    IN  <<One, -(a + b + c), Mul(a, b) + Mul(a, c) - Mul(b, c), Mul(Mul(-a, b), c)>>

\* The 3-root branch's coefficients, powers 3, 2, 1, 0.
expand3(zs) ==
    LET a == zs[1]
        b == zs[2]
        c == zs[3]
    IN  <<One, -(a + b + c), Mul(a, b) + Mul(a, c) + Mul(b, c), Mul(Mul(-a, b), c)>>

\* The locals coef_x* of a call, highest power first; none outside the two expanding branches.
expanded_coefs(zs) ==
    IF Len(zs) = 2 THEN expand2(zs)
    ELSE IF Len(zs) = 3 THEN expand3(zs)
    ELSE <<>>

\* terms of an expanding branch: the leading term, then each lower term whose coefficient is not 0.
expanded_terms(cs) ==
    LET n == Len(cs)
        lower(i) == IF cs[i] # 0 THEN <<format_coefficient(cs[i], n - i, FALSE)>> ELSE <<>>
        RECURSIVE rest(_)
        rest(i) == IF i > n THEN <<>> ELSE lower(i) \o rest(i + 1)
    IN  <<format_coefficient(cs[1], n - 1, TRUE)>> \o rest(2)

\* A factor that drops the sign of a negative root.
factor_term_slip(z) ==
    IF z = 0 THEN <<"x">>
    ELSE <<"(", "x", " ", "-", " ">> \o FmtG(Abs(z)) \o <<")">>

\* One factor of the 4-root branch.
factor_term(z) ==
    IF z = 0 THEN <<"x">>
    ELSE IF z > 0 THEN <<"(", "x", " ", "-", " ">> \o FmtG(z) \o <<")">>
    ELSE <<"(", "x", " ", "+", " ">> \o FmtG(Abs(z)) \o <<")">>

\* A fallback that keeps the first four roots of a longer list.
zeros_to_polynomial_string_trunc(zs) ==
    IF Len(zs) \in {2, 3} THEN
        LET terms == expanded_terms(expanded_coefs(zs))
        IN  IF AnyTerm(terms) THEN Join(terms) ELSE <<"0">>
    ELSE IF Len(zs) >= 4 THEN
        Join([i \in 1..4 |-> factor_term(zs[i])])
    ELSE <<"f", "(", "x", ")">>

zeros_to_polynomial_string(zs) ==
    IF Len(zs) \in {2, 3} THEN
        LET terms == expanded_terms(expanded_coefs(zs))
        IN  IF AnyTerm(terms) THEN Join(terms) ELSE <<"0">>
    ELSE IF Len(zs) = 4 THEN
        Join([i \in 1..4 |-> factor_term(zs[i])])
    ELSE <<"f", "(", "x", ")">>

----------------------------------------------------------------------------
(* format_polynomial_display *)

format_polynomial_display(a, b, c, d) ==
    LET terms1 ==
            IF a # 0 THEN
                IF a = One THEN << <<"x", "^", "3">> >>
                ELSE IF a = -One THEN << <<"-", "x", "^", "3">> >>
                ELSE << FmtG(a) \o <<"x", "^", "3">> >>
            ELSE <<>>
        terms2 ==
            IF b # 0 THEN
                IF b > 0 /\ terms1 # <<>> THEN
                    IF b = One THEN Append(terms1, <<" ", "+", " ", "x", "^", "2">>)
                    ELSE Append(terms1, <<" ", "+", " ">> \o FmtG(b) \o <<"x", "^", "2">>)
                ELSE IF b < 0 THEN
                    IF b = -One THEN Append(terms1, <<" ", "-", " ", "x", "^", "2">>)
                    ELSE Append(terms1, <<" ", "-", " ">> \o FmtG(Abs(b)) \o <<"x", "^", "2">>)
                ELSE
                    IF b = One THEN Append(terms1, <<"x", "^", "2">>)
                    ELSE Append(terms1, FmtG(b) \o <<"x", "^", "2">>)
            ELSE terms1
        terms3 ==
            IF c # 0 THEN
                IF c > 0 /\ terms2 # <<>> THEN
                    IF c = One THEN Append(terms2, <<" ", "+", " ", "x">>)
                    ELSE Append(terms2, <<" ", "+", " ">> \o FmtG(c) \o <<"x">>)
                ELSE IF c < 0 THEN
                    IF c = -One THEN Append(terms2, <<" ", "-", " ", "x">>)
                    ELSE Append(terms2, <<" ", "-", " ">> \o FmtG(Abs(c)) \o <<"x">>)
                ELSE
                    IF c = One THEN Append(terms2, <<"x">>)
                    ELSE Append(terms2, FmtG(c) \o <<"x">>)
            ELSE terms2
        terms4 ==
            IF d # 0 THEN
                IF d > 0 /\ terms3 # <<>> THEN Append(terms3, <<" ", "+", " ">> \o FmtG(d))
                ELSE IF d < 0 THEN Append(terms3, <<" ", "-", " ">> \o FmtG(Abs(d)))
                ELSE Append(terms3, FmtG(d))
            ELSE terms3
    IN  IF terms4 # <<>> THEN Join(terms4) ELSE <<"0">>

----------------------------------------------------------------------------
(* Sampling *)

NumPoints == 400
XMin == -6
XMax == 6

\* The samples are held as numerators over XDen.
XDen == NumPoints - 1

\* np.linspace(start, stop, num) with the end point dropped from the grid.
linspace_noend(start, stop, num) ==
    [i \in 1..num |-> start * (num - 1) + ((i - 1) * (stop - start) * (num - 1)) \div num]

\* np.linspace(start, stop, num): start + i * (stop - start) / (num - 1), i = 0 .. num - 1,
\* as numerators over num - 1.
linspace(start, stop, num) ==
    [i \in 1..num |-> start * (num - 1) + (i - 1) * (stop - start)]

\* f_t = ones_like(t); for z in zeros: f_t *= (t - z).  The product of up to four factors does
\* not fit an integer, so a sample is held as the sequence of its factors t - z, in the order
\* they are multiplied in, each a numerator over XDen * Scale.
roots_f_t(tt, zs) ==
    [i \in 1..Len(tt) |-> [k \in 1..Len(zs) |-> Scale * tt[i] - XDen * zs[k]]]

\* f_t = a*t**3 + b*t**2 + c*t + d, held per sample as the coefficients and the abscissa
\* the sum is evaluated at.
coef_f_t(a, b, c, d, tt) ==
    [i \in 1..Len(tt) |-> [a |-> a, b |-> b, c |-> c, d |-> d, x |-> tt[i]]]

\* f"{v:.1f}" of a value with at most one decimal digit: exactly one digit after the point.
Fmt1f(v) ==
    (IF v < 0 THEN <<"-">> ELSE <<>>)
    \o IntStr(Abs(v) \div Scale) \o <<".">> \o <<DigitChars[((Abs(v) % Scale) \div 100) + 1]>>

\* A label that always prints one decimal (f"x = {z:.1f}").
marker_labels_1f(zs) ==
    [i \in 1..Len(zs) |-> <<"x", " ", "=", " ">> \o Fmt1f(zs[i])]

\* text=[f"x = {z:g}" for z in zeros]
marker_labels(zs) ==
    [i \in 1..Len(zs) |-> <<"x", " ", "=", " ">> \o FmtG(zs[i])]

\* A cache that the previous run's arithmetic has shifted in place.
cached_x_values_drift(cache) ==
    IF cache = <<>> THEN linspace(XMin, XMax, NumPoints)
    ELSE [i \in 1..Len(cache) |-> cache[i] + 1]

\* if 'x_values' not in st.session_state: st.session_state.x_values = np.linspace(-6, 6, 400)
cached_x_values(cache) ==
    IF cache = <<>> THEN linspace(XMin, XMax, NumPoints) ELSE cache

----------------------------------------------------------------------------
(* The widgets *)

SliderStep == Scale \div 10
ZeroMin == -5 * Scale
ZeroMax == 5 * Scale
default_zeros == <<-2 * Scale, 1 * Scale, 3 * Scale, 4 * Scale>>
default_abcd == <<14 * SliderStep, 14 * SliderStep, 9 * SliderStep, 47 * SliderStep>>
CoefMin == <<-5 * Scale, -5 * Scale, -5 * Scale, -10 * Scale>>
CoefMax == <<5 * Scale, 5 * Scale, 5 * Scale, 10 * Scale>>
NumFactorsOptions == {2, 3, 4}
default_num_factors == 4

Halves(n) == {k * 5 * SliderStep : k \in -n..n}

\* Slider positions of a session, in slider steps: 0, -0.5, 1, 0.5, -1.
MovePositions == <<0, -5, 10, 5, -10>>
Moves == {MovePositions[k] * SliderStep : k \in 1..(IF MaxMove < Len(MovePositions) THEN MaxMove ELSE Len(MovePositions))}

\* The positions slider "Zero i" is moved to.
ZeroPositions(i) == {v \in Moves \cup {default_zeros[i]} : ZeroMin <= v /\ v <= ZeroMax}

\* The positions the j-th coefficient slider (a, b, c, d) is moved to.
CoefPositions(j) == {v \in Moves \cup {default_abcd[j]} : CoefMin[j] <= v /\ v <= CoefMax[j]}

----------------------------------------------------------------------------
(* One run of the script, top to bottom, with the widgets' values as given *)

\* The "Zeros (roots)" branch.
RunZerosMode(zs) ==
    /\ pc' = "run"
    /\ mode' = "zeros"
    /\ zeros' = zs
    /\ abcd' = <<>>
    /\ t' = linspace(XMin, XMax, NumPoints)
    /\ f_t' = roots_f_t(t', zs)
    /\ poly_string' = zeros_to_polynomial_string(zs)
    /\ coefs' = expanded_coefs(zs)
    /\ marker_text' = marker_labels(zs)
    /\ UNCHANGED x_values

\* The "Polynomial coefficients" branch.
RunCoefficientMode(co) ==
    /\ pc' = "run"
    /\ mode' = "coefficients"
    /\ zeros' = <<>>
    /\ abcd' = co
    /\ x_values' = cached_x_values(x_values)
    /\ t' = x_values'
    /\ f_t' = coef_f_t(co[1], co[2], co[3], co[4], t')
    /\ poly_string' = format_polynomial_display(co[1], co[2], co[3], co[4])
    /\ coefs' = <<>>
    /\ marker_text' = <<>>

\* The radio is switched.  The other branch's widgets are not rendered in this run, and a
\* widget that appears (again) starts from its default.
SelectMode ==
    /\ pc = "run"
    /\ \/ /\ mode = "zeros"
          /\ RunCoefficientMode(default_abcd)
       \/ /\ mode = "coefficients"
          /\ RunZerosMode(default_zeros)

\* The selectbox is changed: the sliders that stay keep their values, the ones that appear
\* start from default_zeros[i].
SelectNumFactors ==
    /\ pc = "run"
    /\ mode = "zeros"
    /\ \E n \in NumFactorsOptions \ {Len(zeros)} :
          RunZerosMode([i \in 1..n |-> IF i <= Len(zeros) THEN zeros[i] ELSE default_zeros[i]])

MoveZeroSlider ==
    /\ pc = "run"
    /\ mode = "zeros"
    /\ \E i \in 1..Len(zeros) : \E v \in ZeroPositions(i) \ {zeros[i]} :
          RunZerosMode([zeros EXCEPT ![i] = v])

\* The button only calls st.rerun(): the script runs again with the same widget values.
ClickReset ==
    /\ pc = "run"
    /\ mode = "zeros"
    /\ RunZerosMode(zeros)

MoveCoefficientSlider ==
    /\ pc = "run"
    /\ mode = "coefficients"
    /\ \E j \in 1..4 : \E v \in CoefPositions(j) \ {abcd[j]} :
          RunCoefficientMode([abcd EXCEPT ![j] = v])

\* The first run of a session: the radio's first option, four factors, every slider at its default.
SessionInit ==
    /\ pc = "run"
    /\ mode = "zeros"
    /\ zeros = [i \in 1..default_num_factors |-> default_zeros[i]]
    /\ abcd = <<>>
    /\ x_values = <<>>
    /\ t = linspace(XMin, XMax, NumPoints)
    /\ f_t = roots_f_t(t, zeros)
    /\ poly_string = zeros_to_polynomial_string(zeros)
    /\ coefs = expanded_coefs(zeros)
    /\ marker_text = marker_labels(zeros)

SessionNext ==
    \/ SelectMode
    \/ SelectNumFactors
    \/ MoveZeroSlider
    \/ ClickReset
    \/ MoveCoefficientSlider

\* A user session: one script run per interaction.
SessionSpec == SessionInit /\ [][SessionNext]_vars

----------------------------------------------------------------------------
(* Direct calls of the two formatters *)

CallLens == {0, 1, 2, 3, 4, 5}

SeqsOfLen(S, n) == [1..n -> S]

\* The root lists the documentation of the formatters works through.
ExampleZeros ==
    { <<-2 * Scale, 3 * Scale>>, <<2 * Scale, 2 * Scale>>,
      <<-2 * Scale, 1 * Scale, 3 * Scale, 4 * Scale>>, <<1 * Scale, 2 * Scale, 3 * Scale>> }

Init ==
    /\ pc = "call"
    /\ mode \in {"zeros", "coefficients"}
    /\ IF mode = "zeros"
       THEN /\ \/ \E n \in CallLens : zeros \in SeqsOfLen(Halves(MaxHalf), n)
               \/ zeros \in ExampleZeros
            /\ abcd = <<>>
       ELSE /\ zeros = <<>>
            /\ abcd \in SeqsOfLen(Halves(MaxHalf), 4)
    /\ poly_string = <<>>
    /\ coefs = <<>>
    /\ x_values = <<>>
    /\ t = <<>>
    /\ f_t = <<>>
    /\ marker_text = <<>>

\* poly_string = zeros_to_polynomial_string(zeros); the function has no raise statement.
Call_zeros_to_polynomial_string ==
    /\ pc = "call"
    /\ mode = "zeros"
    /\ pc' = "returned"
    /\ poly_string' = zeros_to_polynomial_string(zeros)
    /\ coefs' = expanded_coefs(zeros)
    /\ UNCHANGED <<mode, zeros, abcd, x_values, t, f_t, marker_text>>

\* polynomial_display = format_polynomial_display(a, b, c, d)
Call_format_polynomial_display ==
    /\ pc = "call"
    /\ mode = "coefficients"
    /\ pc' = "returned"
    /\ poly_string' = format_polynomial_display(abcd[1], abcd[2], abcd[3], abcd[4])
    /\ UNCHANGED <<mode, zeros, abcd, coefs, x_values, t, f_t, marker_text>>

Next ==
    \/ Call_zeros_to_polynomial_string
    \/ Call_format_polynomial_display

Spec == Init /\ [][Next]_vars

----------------------------------------------------------------------------
(* The documented formatting algorithm, for comparison with the code's results *)

\* One term: (coefficient, power, whether it is the first emitted term) -> fragment.
DocTerm(coef, power, first) ==
    LET numeral(v) == IF power >= 1 /\ v = One THEN <<>> ELSE FmtG(v)
        head == IF first
                THEN (IF power >= 1 /\ coef = -One THEN <<"-">>
                      ELSE IF power >= 1 /\ coef = One THEN <<>>
                      ELSE FmtG(coef))
                ELSE (IF coef > 0 THEN <<" ", "+", " ">> ELSE <<" ", "-", " ">>) \o numeral(Abs(coef))
        suffix == IF power >= 2 THEN <<"x", "^">> \o IntStr(power)
                  ELSE IF power = 1 THEN <<"x">>
                  ELSE <<>>
    IN  head \o suffix

RECURSIVE DocFormatFrom(_, _, _)
DocFormatFrom(cs, i, first) ==
    IF i > Len(cs) THEN <<>>
    ELSE IF cs[i] = 0 THEN DocFormatFrom(cs, i + 1, first)
    ELSE DocTerm(cs[i], Len(cs) - i, first) \o DocFormatFrom(cs, i + 1, FALSE)

\* Coefficients highest power first -> display string; "0" when every term is skipped.
DocFormat(cs) ==
    IF \A i \in 1..Len(cs) : cs[i] = 0 THEN <<"0">> ELSE DocFormatFrom(cs, 1, TRUE)

\* One factor of the factored display.
DocFactor(z) ==
    IF z = 0 THEN <<"x">>
    ELSE <<"(", "x", " ">> \o (IF z > 0 THEN <<"-">> ELSE <<"+">>) \o <<" ">> \o FmtG(Abs(z)) \o <<")">>

NumeralChars == {DigitChars[k] : k \in 1..10} \cup {"."}

\* The DisplayString invariant, read off the characters of s.
DisplayStringOK(s) ==
    /\ s # <<>>
    /\ s[1] \notin {"+", " "}
    /\ \A i \in 2..Len(s) :
          s[i] \in {"+", "-"} => (s[i - 1] = " " /\ i < Len(s) /\ s[i + 1] = " ")
    /\ \A i \in 1..Len(s) :
          s[i] = " " => /\ 1 < i /\ i < Len(s)
                        /\ s[i - 1] \in {"+", "-"} \/ s[i + 1] \in {"+", "-"}
    /\ \A i \in 1..(Len(s) - 1) :
          (s[i] = "1" /\ s[i + 1] = "x") => (i > 1 /\ s[i - 1] \in NumeralChars)

\* Value at r of the polynomial with coefficients cs, highest power first (Horner).
RECURSIVE PolyEvalFrom(_, _, _, _)
PolyEvalFrom(cs, r, i, acc) ==
    IF i > Len(cs) THEN acc ELSE PolyEvalFrom(cs, r, i + 1, Mul(acc, r) + cs[i])
PolyEval(cs, r) == PolyEvalFrom(cs, r, 1, 0)

Returned2 == pc = "returned" /\ mode = "zeros" /\ Len(zeros) = 2
Returned3 == pc = "returned" /\ mode = "zeros" /\ Len(zeros) = 3
Returned4 == pc = "returned" /\ mode = "zeros" /\ Len(zeros) = 4
ReturnedOther == pc # "call" /\ mode = "zeros" /\ Len(zeros) \notin {2, 3, 4}
ReturnedDisplay == pc = "returned" /\ mode = "coefficients"

----------------------------------------------------------------------------
(* The claims *)

\* C1: for every pair of roots (a, b) the result of zeros_to_polynomial_string is the
\* documented rendering of x^2 - (a+b)x + ab: terms after the first joined by " + " or " - "
\* and the absolute value, zero terms omitted, 1/-1 on x elided.
C1_TwoRootsMatchDocumentedString ==
    Returned2 =>
        poly_string = DocFormat(<<One, -(zeros[1] + zeros[2]), Mul(zeros[1], zeros[2])>>)

\* C2: for every (a, b, c, d) the result of format_polynomial_display is the string the
\* documented algorithm builds: no separator on the first emitted term, " + " / " - " on the
\* later ones, "0" when all four are zero.
C2_DisplayMatchesDocumentedString ==
    ReturnedDisplay => poly_string = DocFormat(abcd)

\* C3 (as stated): a call with a root list whose length is not 2, 3 or 4 fails with an error
\* and returns no display string.
C3_BadLengthRaises ==
    ReturnedOther => pc = "raised"

\* C3 (amended): such a call does not fail: it returns the placeholder "f(x)", whatever the
\* roots are, expands nothing, and neither truncates nor pads the list.
C3_BadLengthReturnsPlaceholder ==
    /\ pc # "raised"
    /\ ReturnedOther => /\ pc = "returned"
                        /\ poly_string = <<"f", "(", "x", ")">>
                        /\ coefs = <<>>

C3_Witness ==
    /\ ReturnedOther
    /\ Len(zeros) = 5
    /\ \E i \in 1..5 : zeros[i] # 0
    /\ poly_string = <<"f", "(", "x", ")">>

\* C4: for exactly 4 roots the result is the concatenation, in input order and with no
\* separator, of "x" (z = 0), "(x - z)" (z > 0) or "(x + |z|)" (z < 0) per root; roots
\* (-2, 1, 3, 4) give "(x + 2)(x - 1)(x - 3)(x - 4)".
C4_FourRootsFactored ==
    Returned4 =>
        /\ poly_string = DocFactor(zeros[1]) \o DocFactor(zeros[2])
                         \o DocFactor(zeros[3]) \o DocFactor(zeros[4])
        /\ zeros = <<-2 * Scale, 1 * Scale, 3 * Scale, 4 * Scale>> =>
              poly_string = <<"(", "x", " ", "+", " ", "2", ")", "(", "x", " ", "-", " ", "1", ")",
                              "(", "x", " ", "-", " ", "3", ")", "(", "x", " ", "-", " ", "4", ")">>

C4_Witness ==
    /\ Returned4
    /\ zeros[1] < 0 /\ zeros[2] = 0 /\ zeros[3] > 0 /\ zeros[4] = zeros[3]
    /\ poly_string = <<"(", "x", " ", "+", " ", "0", ".", "5", ")", "x",
                       "(", "x", " ", "-", " ", "1", ")", "(", "x", " ", "-", " ", "1", ")">>

\* C5: every expanded-form display string (2 or 3 roots, or a coefficient vector) keeps the
\* DisplayString invariant: no leading "+", separator or blank, no numeral 1 or -1 in front
\* of x, every later term joined by exactly " + " or " - ".
C5_DisplayStringInvariant ==
    (Returned2 \/ Returned3 \/ ReturnedDisplay) => DisplayStringOK(poly_string)

\* C6 (as stated): in roots mode the marker label of every root is "x = <root>" with the
\* root printed with exactly one digit after the point.
C6_LabelsOneDecimal ==
    (pc = "run" /\ mode = "zeros") =>
        /\ Len(marker_text) = Len(zeros)
        /\ \A i \in 1..Len(zeros) : marker_text[i] = <<"x", " ", "=", " ">> \o Fmt1f(zeros[i])

\* C6 (amended): the marker label of every root is "x = <root>" with the root in the same
\* general format as the numerals of the display string: root 1 is labelled "x = 1",
\* root -0.5 "x = -0.5".
C6_LabelsGeneralFormat ==
    (pc = "run" /\ mode = "zeros") =>
        /\ Len(marker_text) = Len(zeros)
        /\ \A i \in 1..Len(zeros) :
              /\ marker_text[i] = <<"x", " ", "=", " ">> \o FmtG(zeros[i])
              /\ zeros[i] = One => marker_text[i] = <<"x", " ", "=", " ", "1">>
              /\ zeros[i] = -5 * SliderStep =>
                    marker_text[i] = <<"x", " ", "=", " ", "-", "0", ".", "5">>

C6_Witness ==
    /\ pc = "run" /\ mode = "zeros"
    /\ \E i, j \in 1..Len(zeros) :
          /\ zeros[i] = One /\ marker_text[i] = <<"x", " ", "=", " ", "1">>
          /\ zeros[j] = -5 * SliderStep

StrictlyAscending(xs) == \A i \in 1..(Len(xs) - 1) : xs[i] < xs[i + 1]

ChartGridOK ==
    /\ Len(t) = NumPoints
    /\ StrictlyAscending(t)
    /\ t[1] = XMin * XDen
    /\ t[Len(t)] = XMax * XDen

\* C7: after any sequence of interactions the x-sequence handed to the chart is strictly
\* ascending, has exactly 400 elements and spans [-6, 6], in both modes; and the x-array
\* cached in the session is never changed by a later run.
C7_ChartGridStable ==
    /\ [](pc = "run" => ChartGridOK)
    /\ [][x_values # <<>> => x_values' = x_values]_vars

C7_Witness ==
    /\ pc = "run" /\ mode = "zeros"
    /\ x_values # <<>>
    /\ Len(zeros) = 2
    /\ zeros[1] # default_zeros[1]
    /\ ChartGridOK

\* C8: the outputs of a run are a function of the current mode and the current roots or
\* coefficients alone: the display string and the sample points are what a first run with
\* the same inputs computes, whatever the session has cached and whatever mode came before.
C8_OutputsDependOnCurrentInputsOnly ==
    pc = "run" =>
        /\ t = linspace(XMin, XMax, NumPoints)
        /\ mode = "zeros" =>
              /\ poly_string = zeros_to_polynomial_string(zeros)
              /\ f_t = roots_f_t(linspace(XMin, XMax, NumPoints), zeros)
        /\ mode = "coefficients" =>
              /\ poly_string = format_polynomial_display(abcd[1], abcd[2], abcd[3], abcd[4])
              /\ f_t = coef_f_t(abcd[1], abcd[2], abcd[3], abcd[4],
                                linspace(XMin, XMax, NumPoints))

C8_Witness ==
    /\ pc = "run" /\ mode = "coefficients"
    /\ x_values # <<>>
    /\ abcd # default_abcd
    /\ abcd[1] = 0 /\ abcd[2] = 0
    /\ poly_string = format_polynomial_display(abcd[1], abcd[2], abcd[3], abcd[4])

\* C9: for every triple (a, b, c) the coefficients of the 3-root branch are
\* [1, -(a+b+c), ab+ac+bc, -abc], and the polynomial with those coefficients is 0 at a, at b
\* and at c, repeated roots included.
C9_ThreeRootsExpansion ==
    Returned3 =>
        LET a == zeros[1]
            b == zeros[2]
            c == zeros[3]
        IN  /\ coefs = <<One, -a - b - c, Mul(a, b) + Mul(a, c) + Mul(b, c), -Mul(Mul(a, b), c)>>
            /\ \A i \in 1..3 : PolyEval(coefs, zeros[i]) = 0

C9_Witness ==
    /\ Returned3
    /\ zeros[1] = zeros[2] /\ zeros[3] # zeros[1] /\ zeros[1] # 0 /\ zeros[3] < 0
    /\ coefs[3] # 0 /\ coefs[4] # 0
    /\ \A i \in 1..3 : PolyEval(coefs, zeros[i]) = 0

\* C10: for every triple of roots the two formatters agree:
\* zeros_to_polynomial_string([a, b, c]) is the string
\* format_polynomial_display(1, -(a+b+c), ab+ac+bc, -abc).
C10_FormattersAgree ==
    Returned3 =>
        LET a == zeros[1]
            b == zeros[2]
            c == zeros[3]
        IN  poly_string =
                format_polynomial_display(One, -(a + b + c),
                                          Mul(a, b) + Mul(a, c) + Mul(b, c), -Mul(Mul(a, b), c))

====
